---- MODULE Spec2Model ----
(***************************************************************************)
(* Ledger computation of the finhelper backend: the Expense and Budget     *)
(* mongoose models (schema validators, pre-save hooks, instance methods).  *)
(*                                                                         *)
(* Money is held in minor units (1 = 0.01): the schema's amounts are       *)
(* decimal numbers with two places, so amount = 100.00 is 10000 here.      *)
(* Time is an integer number of ticks; one day is TicksPerDay ticks.       *)
(***************************************************************************)
EXTENDS Integers, Sequences, FiniteSets, TLC

VARIABLES
    expense,        \* the in-memory Expense document (NoExpense: none built yet)
    expenseResult,  \* what the last operation on the expense document did;
                    \* while it reads "saved" the document is as it was written
    expenseDb,      \* the persisted expenses collection, as the aggregations read it
    budget,         \* the in-memory Budget document
    budgetCalls,    \* calculateStats() promises started by a save and not yet settled
    budgetResult,   \* what the last operation on the budget document did; while
                    \* it reads "saved" the document is as it was written
    group,          \* the in-memory Group document
    groupResult,    \* what the last operation on the group document did and
                    \* returned
    groupDb,        \* the invite codes of the other groups stored in the
                    \* groups collection, in the order they were inserted
    userGroups,     \* User.groups of every user: the group ids pushed to it
    categories,     \* the persisted categories collection
    categoryResult, \* what the last save of a category did
    response,       \* what the last controller handler answered
    now             \* the clock read by `new Date()`

vars == <<expense, expenseResult, expenseDb, budget, budgetCalls,
          budgetResult, group, groupResult, groupDb, userGroups, categories,
          categoryResult, response, now>>

expenseVars == <<expense, expenseResult>>
budgetVars == <<expenseDb, budget, budgetCalls, budgetResult, now>>
groupVars == <<group, groupResult>>
otherVars == <<groupDb, userGroups, categories, categoryResult, response>>

----------------------------------------------------------------------------
\* Bounds of the model

\* largest expense amount entered, in minor units
MaxAmount == 2
\* user ids are 1..NumUsers
NumUsers == 3
\* longest splitBetween list entered
MaxSplit == 3
\* longest caller-supplied splitAmounts list entered
MaxCustom == 2

Users == 1..NumUsers

\* the budget's date range entered: [BudgetStart, BudgetEnd]
BudgetStart == 1
BudgetEnd == BudgetStart + 1
\* latest clock value explored
MaxTime == BudgetEnd + 1
\* largest budget amount entered
MaxBudget == 2
\* most expenses stored
MaxExpenses == 2
\* most calculateStats() calls in flight
MaxCalls == 1
\* largest recurringPattern.interval entered
MaxInterval == 2
\* users entered as group members: 1..MaxMembers
MaxMembers == 2
\* invite codes generateInviteCode() draws from: 1..MaxCodes
MaxCodes == 2
\* most other groups stored
MaxOtherGroups == 2
\* category ids: 1..MaxCategories
MaxCategories == 3
\* latest clock value at which a member joins
MaxJoinTime == 1

----------------------------------------------------------------------------
\* Arithmetic helpers

\* Math.round(num / den) for num >= 0, den > 0: halves round up.  The code
\* computes Math.round((amount / n) * 100) / 100 on doubles; for the amounts
\* of this model the double result is the exact one (the first amounts where
\* a double tie falls the other way are 0.21 / 6 and 0.29 / 2).
MathRound(num, den) == (2 * num + den) \div (2 * den)

Max(a, b) == IF a >= b THEN a ELSE b

RECURSIVE SumShares(_)
\* the sum of the amount fields of a splitAmounts array
SumShares(sa) ==
    IF sa = <<>> THEN 0 ELSE Head(sa).amount + SumShares(Tail(sa))

\* whether a sequence holds some value twice
HasDuplicate(s) == \E i, j \in 1..Len(s) : i < j /\ s[i] = s[j]

----------------------------------------------------------------------------
\* Calendar dates.  A Date is a tick count since 1970-01-01T00:00 (UTC).

\* ticks in one day: the model's clock resolution
TicksPerDay == 2
\* an absent Date (undefined)
NoDate == -1

\* floor division and modulus for possibly negative numerators
FloorDiv(a, b) == IF a >= 0 THEN a \div b ELSE -((-a + b - 1) \div b)
FloorMod(a, b) == a - b * FloorDiv(a, b)

\* Day number (days since 1970-01-01) of the proleptic Gregorian date y-m-d,
\* m in 1..12; d may lie outside the month, in which case the date rolls over
\* into the neighbouring months as the JavaScript Date setters make it.
DaysFromCivil(y, m, d) ==
    LET yy == IF m <= 2 THEN y - 1 ELSE y
        era == FloorDiv(yy, 400)
        yoe == yy - era * 400
        mp == IF m > 2 THEN m - 3 ELSE m + 9
        doy == (153 * mp + 2) \div 5 + d - 1
        doe == yoe * 365 + yoe \div 4 - yoe \div 100 + doy
    IN  era * 146097 + doe - 719468

\* The date [y, m, d] of a day number.
CivilFromDays(z) ==
    LET zz == z + 719468
        era == FloorDiv(zz, 146097)
        doe == zz - era * 146097
        yoe == (doe - doe \div 1460 + doe \div 36524 - doe \div 146096) \div 365
        doy == doe - (365 * yoe + yoe \div 4 - yoe \div 100)
        mp == (5 * doy + 2) \div 153
        dd == doy - (153 * mp + 2) \div 5 + 1
        mm == IF mp < 10 THEN mp + 3 ELSE mp - 9
    IN  [y |-> yoe + era * 400 + (IF mm <= 2 THEN 1 ELSE 0), m |-> mm, d |-> dd]

\* Date.prototype.setDate(getDate() + k): k days later, same time of day
AddDays(t, k) == t + k * TicksPerDay

\* Date.prototype.setMonth(getMonth() + k): the month field is advanced and the
\* day of month kept; a day the target month does not have rolls over into the
\* following month (Jan 31 + 1 month = Feb 31 = Mar 2 or Mar 3).
AddMonths(t, k) ==
    LET c == CivilFromDays(FloorDiv(t, TicksPerDay))
        m0 == (c.m - 1) + k
        y1 == c.y + FloorDiv(m0, 12)
        m1 == FloorMod(m0, 12) + 1
    IN  DaysFromCivil(y1, m1, c.d) * TicksPerDay + FloorMod(t, TicksPerDay)

\* Date.prototype.setFullYear(getFullYear() + k): Feb 29 rolls over to Mar 1
\* in a year that is no leap year.
AddYears(t, k) ==
    LET c == CivilFromDays(FloorDiv(t, TicksPerDay))
    IN  DaysFromCivil(c.y + k, c.m, c.d) * TicksPerDay + FloorMod(t, TicksPerDay)

----------------------------------------------------------------------------
\* The Expense model

ExpenseTypes == {"personal", "group"}
ExpenseStatuses == {"active", "deleted", "archived"}
Frequencies == {"daily", "weekly", "monthly", "yearly"}
\* a recurringPattern.frequency that was never set (undefined)
NoFrequency == "none"

\* no document built yet
NoExpense == [isNew |-> FALSE, exists |-> FALSE]

\* recurringPattern is a nested path of the schema, so it is always an object
\* on a document; interval defaults to 1, the other fields to undefined.
DefaultPattern ==
    [frequency |-> NoFrequency, interval |-> 1, endDate |-> NoDate,
     nextOccurrence |-> NoDate]

\* no group / no category reference (undefined)
NoRef == 0

\* new Expense({userId, type, amount, date, splitBetween, splitAmounts}): the
\* fields given, the schema's defaults for the rest.  modified holds the paths
\* changed since the last successful save, of those the hooks ask
\* isModified() about (status).
NewExpense(userId, type, amount, date, splitBetween, splitAmounts) ==
    [exists |-> TRUE, isNew |-> TRUE,
     userId |-> userId, groupId |-> NoRef, categoryId |-> 1,
     type |-> type, amount |-> amount, currency |-> "TRY", date |-> date,
     splitBetween |-> splitBetween, splitAmounts |-> splitAmounts,
     status |-> "active", isRecurring |-> FALSE,
     recurringPattern |-> DefaultPattern, deletedAt |-> NoDate,
     modified |-> {}]

\* The schema's validators, run by save() before the pre-save hooks:
\* amount min 0.01 (its max, 999999999.99, is far above MaxAmount),
\* splitAmounts[].amount min 0, the enums, recurringPattern.interval min 1.
ExpenseValid(e) ==
    /\ e.amount >= 1
    /\ \A i \in 1..Len(e.splitAmounts) : e.splitAmounts[i].amount >= 0
    /\ e.type \in ExpenseTypes
    /\ e.status \in ExpenseStatuses
    /\ e.recurringPattern.frequency \in Frequencies \cup {NoFrequency}
    /\ e.recurringPattern.interval >= 1

\* The equal split of the first pre-save hook: every participant of
\* splitBetween gets Math.round(amount / n * 100) / 100, each share rounded
\* on its own.
EqualSplit(amount, splitBetween) ==
    [i \in 1..Len(splitBetween) |->
        [userId |-> splitBetween[i],
         amount |-> MathRound(amount, Len(splitBetween))]]

\* First part of the first pre-save hook: a group expense with participants
\* and no splitAmounts gets the equal split; anything else is left as it is.
ApplySplit(e) ==
    IF e.type = "group" /\ Len(e.splitBetween) > 0 /\ Len(e.splitAmounts) = 0
    THEN [e EXCEPT !.splitAmounts = EqualSplit(e.amount, e.splitBetween)]
    ELSE e

\* calculateNextOccurrence(): date advanced by interval units of frequency
\* with the Date setters; an unset frequency matches no case of the switch
\* and leaves nextDate = date.  Past endDate the expense stops recurring.
CalculateNextOccurrence(e) ==
    LET p == e.recurringPattern
        nextDate ==
            CASE p.frequency = "daily" -> AddDays(e.date, p.interval)
              [] p.frequency = "weekly" -> AddDays(e.date, p.interval * 7)
              [] p.frequency = "monthly" -> AddMonths(e.date, p.interval)
              [] p.frequency = "yearly" -> AddYears(e.date, p.interval)
              [] OTHER -> e.date
    IN  IF p.endDate # NoDate /\ nextDate > p.endDate
        THEN [e EXCEPT !.isRecurring = FALSE,
                       !.recurringPattern.nextOccurrence = NoDate]
        ELSE [e EXCEPT !.recurringPattern.nextOccurrence = nextDate]

\* the recurrence step without its isRecurring condition
ApplyRecurrenceUnguarded(e) == CalculateNextOccurrence(e)

\* Second part of the first pre-save hook (recurringPattern is always truthy).
ApplyRecurrence(e) == IF e.isRecurring THEN CalculateNextOccurrence(e) ELSE e

\* The second pre-save hook: a status changed to deleted stamps deletedAt.
ApplySoftDelete(e, t) ==
    IF "status" \in e.modified /\ e.status = "deleted"
    THEN [e EXCEPT !.deletedAt = t]
    ELSE e

\* Both pre-save hooks, in the order they are registered.
ExpensePreSave(e, t) == ApplySoftDelete(ApplyRecurrence(ApplySplit(e)), t)

\* What an edit or a construction leaves in expenseResult.  stopped records
\* that a save ended the recurrence (calculateNextOccurrence() set isRecurring
\* to false) and isRecurring was not assigned since.
NoResult(op) ==
    [op |-> op, outcome |-> "none", supplied |-> <<>>, stopped |-> FALSE]

\* new Expense(...) with a split request
ExpenseNew(type, amount, splitBetween, splitAmounts) ==
    /\ ~expense.exists
    /\ expense' = NewExpense(1, type, amount, now, splitBetween, splitAmounts)
    /\ expenseResult' = NoResult("new")
    /\ UNCHANGED <<budgetVars, groupVars, otherVars>>

\* expense.amount = a
ExpenseSetAmount(a) ==
    /\ expense.exists
    /\ expense.amount # a
    /\ expense' = [expense EXCEPT !.amount = a]
    /\ expenseResult' = NoResult("edit")
    /\ UNCHANGED <<budgetVars, groupVars, otherVars>>

\* expense.splitBetween = sb
ExpenseSetSplitBetween(sb) ==
    /\ expense.exists
    /\ expense.splitBetween # sb
    /\ expense' = [expense EXCEPT !.splitBetween = sb]
    /\ expenseResult' = NoResult("edit")
    /\ UNCHANGED <<budgetVars, groupVars, otherVars>>

\* expense.splitAmounts = sa
ExpenseSetSplitAmounts(sa) ==
    /\ expense.exists
    /\ expense.splitAmounts # sa
    /\ expense' = [expense EXCEPT !.splitAmounts = sa]
    /\ expenseResult' = NoResult("edit")
    /\ UNCHANGED <<budgetVars, groupVars, otherVars>>

\* expense.date = d
ExpenseSetDate(d) ==
    /\ expense.exists
    /\ expense.date # d
    /\ expense' = [expense EXCEPT !.date = d]
    /\ expenseResult' = [NoResult("edit") EXCEPT
                            !.stopped = expenseResult.stopped]
    /\ UNCHANGED <<budgetVars, groupVars, otherVars>>

\* expense.isRecurring = b: the user switches the recurrence on or off
ExpenseSetIsRecurring(b) ==
    /\ expense.exists
    /\ expense.isRecurring # b
    /\ expense' = [expense EXCEPT !.isRecurring = b]
    /\ expenseResult' = NoResult("recurring")
    /\ UNCHANGED <<budgetVars, groupVars, otherVars>>

\* expense.recurringPattern.frequency = f
ExpenseSetFrequency(f) ==
    /\ expense.exists
    /\ expense.recurringPattern.frequency # f
    /\ expense' = [expense EXCEPT !.recurringPattern.frequency = f]
    /\ expenseResult' = [NoResult("edit") EXCEPT
                            !.stopped = expenseResult.stopped]
    /\ UNCHANGED <<budgetVars, groupVars, otherVars>>

\* expense.recurringPattern.interval = k
ExpenseSetInterval(k) ==
    /\ expense.exists
    /\ expense.recurringPattern.interval # k
    /\ expense' = [expense EXCEPT !.recurringPattern.interval = k]
    /\ expenseResult' = [NoResult("edit") EXCEPT
                            !.stopped = expenseResult.stopped]
    /\ UNCHANGED <<budgetVars, groupVars, otherVars>>

\* expense.recurringPattern.endDate = d (NoDate: the end date is removed)
ExpenseSetEndDate(d) ==
    /\ expense.exists
    /\ expense.recurringPattern.endDate # d
    /\ expense' = [expense EXCEPT !.recurringPattern.endDate = d]
    /\ expenseResult' = [NoResult("edit") EXCEPT
                            !.stopped = expenseResult.stopped]
    /\ UNCHANGED <<budgetVars, groupVars, otherVars>>

\* expense.status = st: the expense is archived, deleted or restored
ExpenseSetStatus(st) ==
    /\ expense.exists
    /\ expense.status # st
    /\ expense' = [expense EXCEPT !.status = st,
                                  !.modified = expense.modified \cup {"status"}]
    /\ expenseResult' = [NoResult("edit") EXCEPT
                            !.stopped = expenseResult.stopped]
    /\ UNCHANGED <<budgetVars, groupVars, otherVars>>

\* expense.save(): validation, then the pre-save hooks, then the write.  A
\* validation error rejects the save and leaves the document as it was.
\* expenseResult.supplied keeps the splitAmounts the caller handed in.
ExpenseSave ==
    /\ expense.exists
    /\ IF ExpenseValid(expense)
       THEN /\ expense' = [ExpensePreSave(expense, now) EXCEPT
                               !.isNew = FALSE, !.modified = {}]
            /\ expenseResult' =
                   [op |-> "save", outcome |-> "saved",
                    supplied |-> expense.splitAmounts,
                    stopped |->
                        IF expense.isRecurring
                        THEN ~ExpensePreSave(expense, now).isRecurring
                        ELSE expenseResult.stopped]
       ELSE /\ expense' = expense
            /\ expenseResult' = [op |-> "save", outcome |-> "ValidationError",
                                 supplied |-> expense.splitAmounts,
                                 stopped |-> expenseResult.stopped]
    /\ UNCHANGED <<budgetVars, groupVars, otherVars>>

----------------------------------------------------------------------------
\* The persisted expenses collection

\* new Expense({title, categoryId, userId, type, amount, date}).save(): an
\* expense with the required fields and no split request is validated, run
\* through the pre-save hooks and stored.  A document that fails validation
\* is not stored.
StoreExpense(userId, type, amount, date) ==
    /\ Len(expenseDb) < MaxExpenses
    /\ ExpenseValid(NewExpense(userId, type, amount, date, <<>>, <<>>))
    /\ expenseDb' =
           Append(expenseDb,
                  [ExpensePreSave(NewExpense(userId, type, amount, date,
                                             <<>>, <<>>), now)
                      EXCEPT !.isNew = FALSE])
    /\ UNCHANGED <<budget, budgetCalls, budgetResult, now>>
    /\ UNCHANGED <<expenseVars, groupVars, otherVars>>

\* the schema's currency enum
Currencies == {"TRY", "USD", "EUR", "GBP"}

\* new Expense({..., currency}).save(): an expense entered in a currency of
\* its own is stored
StoreExpenseIn(userId, type, amount, date, currency) ==
    /\ Len(expenseDb) < MaxExpenses
    /\ currency \in Currencies
    /\ ExpenseValid(NewExpense(userId, type, amount, date, <<>>, <<>>))
    /\ expenseDb' =
           Append(expenseDb,
                  [ExpensePreSave([NewExpense(userId, type, amount, date,
                                              <<>>, <<>>)
                                      EXCEPT !.currency = currency], now)
                      EXCEPT !.isNew = FALSE])
    /\ UNCHANGED <<budget, budgetCalls, budgetResult, now>>
    /\ UNCHANGED <<expenseVars, groupVars, otherVars>>

\* Soft delete of the i-th stored expense: the document is loaded, its
\* status set to deleted, and saved; the record stays in the collection.
\* Taken while no recomputation of the budget is in flight.
DeleteExpense(i) ==
    /\ budgetCalls = <<>>
    /\ i \in 1..Len(expenseDb)
    /\ expenseDb[i].status = "active"
    /\ LET e == [expenseDb[i] EXCEPT !.status = "deleted",
                                     !.modified = {"status"}]
       IN  /\ ExpenseValid(e)
           /\ expenseDb' = [expenseDb EXCEPT
                               ![i] = [ExpensePreSave(e, now) EXCEPT
                                          !.modified = {}]]
    /\ UNCHANGED <<budget, budgetCalls, budgetResult, now>>
    /\ UNCHANGED <<expenseVars, groupVars, otherVars>>

----------------------------------------------------------------------------
\* The Budget model

BudgetStatuses == {"active", "completed", "exceeded", "paused", "cancelled"}

\* Quotients of the stats block are kept exact, as fractions in lowest terms
\* (the code holds them as doubles).
RECURSIVE Gcd(_, _)
Gcd(a, b) == IF b = 0 THEN a ELSE Gcd(b, a % b)
Rat(n, d) == LET g == Gcd(n, d) IN [num |-> n \div g, den |-> d \div g]
\* r >= k and r > k for a fraction r and an integer k
RatGeq(r, k) == r.num >= k * r.den
RatGt(r, k) == r.num > k * r.den

\* Math.ceil(a / b) for b > 0
CeilDiv(a, b) == -FloorDiv(-a, b)
Abs(a) == IF a >= 0 THEN a ELSE -a

NoBudget == [exists |-> FALSE]

\* settings.alertThreshold's schema default
DefaultAlertThreshold == 80

\* new Budget({userId, amount, startDate, endDate}): the stats block starts at
\* the schema's defaults, status at active.
NewBudget(userId, amount, startDate, endDate, t) ==
    [exists |-> TRUE, userId |-> userId, groupId |-> NoRef, categoryId |-> NoRef,
     amount |-> amount, currency |-> "TRY",
     startDate |-> startDate, endDate |-> endDate,
     alertThreshold |-> DefaultAlertThreshold,
     stats |-> [spentAmount |-> 0, remainingAmount |-> 0,
                percentageUsed |-> Rat(0, 1), daysRemaining |-> 0,
                averageDailySpent |-> Rat(0, 1), lastUpdated |-> t],
     status |-> "active"]

\* The schema's validators, run by save() before the pre-save hook: amount
\* min 0.01, alertThreshold 0..100, stats.percentageUsed 0..100, the enum.
BudgetValid(b) ==
    /\ b.amount >= 1
    /\ b.alertThreshold >= 0 /\ b.alertThreshold <= 100
    /\ RatGeq(b.stats.percentageUsed, 0)
    /\ ~RatGt(b.stats.percentageUsed, 100)
    /\ b.status \in BudgetStatuses

\* virtual isExpired, with `new Date()` = t
IsExpired(b, t) == t > b.endDate

\* isOverBudget with the comparison off by one
IsOverBudgetInclusive(b) == b.stats.spentAmount >= b.amount

\* virtual isOverBudget
IsOverBudget(b) == b.stats.spentAmount > b.amount

\* virtual daysElapsed, with `new Date()` = t
DaysElapsed(b, t) == CeilDiv(Abs(t - b.startDate), TicksPerDay)

\* The $match filter calculateStats() builds before its await.
ExpenseQuery(b) ==
    [userId |-> b.userId, startDate |-> b.startDate, endDate |-> b.endDate,
     groupId |-> b.groupId, categoryId |-> b.categoryId]

\* whether expense e passes the $match stage
Matches(q, e) ==
    /\ e.userId = q.userId
    /\ e.status = "active"
    /\ e.date >= q.startDate /\ e.date <= q.endDate
    /\ (q.groupId # NoRef => e.groupId = q.groupId)
    /\ (q.categoryId # NoRef => e.categoryId = q.categoryId)

RECURSIVE TotalSpent(_, _)
\* the $group stage: the sum of amount over the matching documents (no
\* document: the aggregation returns no row, which the code reads as 0)
TotalSpent(q, db) ==
    IF db = <<>> THEN 0
    ELSE (IF Matches(q, Head(db)) THEN Head(db).amount ELSE 0)
         + TotalSpent(q, Tail(db))

\* calculateStats() after its await: the stats block from the aggregation's
\* total, the document's amount and dates as they are then, and the clock.
StatsFrom(b, total, t) ==
    [spentAmount |-> total,
     remainingAmount |-> Max(0, b.amount - total),
     percentageUsed |-> Rat(total * 100, b.amount),
     daysRemaining |-> Max(0, CeilDiv(b.endDate - t, TicksPerDay)),
     averageDailySpent |->
         IF DaysElapsed(b, t) > 0 THEN Rat(total, DaysElapsed(b, t))
         ELSE Rat(0, 1),
     lastUpdated |-> t]

\* updateStatus() without its early return for cancelled and paused
UpdateStatusNotSticky(b, t) ==
    IF IsExpired(b, t)
    THEN [b EXCEPT !.status = IF IsOverBudget(b) THEN "exceeded"
                              ELSE "completed"]
    ELSE IF IsOverBudget(b) THEN [b EXCEPT !.status = "exceeded"]
         ELSE [b EXCEPT !.status = "active"]

\* updateStatus(), with `new Date()` = t
UpdateStatus(b, t) ==
    IF b.status = "cancelled" \/ b.status = "paused" THEN b
    ELSE IF IsExpired(b, t)
         THEN [b EXCEPT !.status = IF IsOverBudget(b) THEN "exceeded"
                                   ELSE "completed"]
         ELSE IF IsOverBudget(b) THEN [b EXCEPT !.status = "exceeded"]
              ELSE [b EXCEPT !.status = "active"]

\* an aggregation the database has not answered yet
NoTotal == -1

\* What an operation other than save leaves in budgetResult.  at is the
\* clock value a recomputation pass ran at: set by save, and kept by the
\* calculateStats() that completes it when nothing came in between.
BudgetDid(op) == [op |-> op, outcome |-> "none", at |-> NoDate]

\* new Budget(...)
BudgetNew(amount, startDate, endDate) ==
    /\ ~budget.exists
    /\ budget' = NewBudget(1, amount, startDate, endDate, now)
    /\ budgetResult' = BudgetDid("new")
    /\ UNCHANGED <<budgetCalls, expenseDb, now>>
    /\ UNCHANGED <<expenseVars, groupVars, otherVars>>

\* budget.amount = a
BudgetSetAmount(a) ==
    /\ budget.exists
    /\ budget.amount # a
    /\ budget' = [budget EXCEPT !.amount = a]
    /\ budgetResult' = BudgetDid("edit")
    /\ UNCHANGED <<budgetCalls, expenseDb, now>>
    /\ UNCHANGED <<expenseVars, groupVars, otherVars>>

\* budget.status = s: the user pauses, cancels or resumes the budget
BudgetSetStatus(s) ==
    /\ budget.exists
    /\ budget.status # s
    /\ budget' = [budget EXCEPT !.status = s]
    /\ budgetResult' = BudgetDid("status")
    /\ UNCHANGED <<budgetCalls, expenseDb, now>>
    /\ UNCHANGED <<expenseVars, groupVars, otherVars>>

\* budget.save(): the validators, then the pre-save hook, then the write.
\* The hook calls calculateStats() without awaiting it: the call builds its
\* query, hands the aggregation to the database and returns a promise the
\* hook drops; updateStatus() then runs on the stats block as it is, and the
\* document is written as it is.  A validation error rejects the save before
\* the hook runs.
BudgetSave ==
    /\ budget.exists
    /\ Len(budgetCalls) < MaxCalls
    /\ IF BudgetValid(budget)
       THEN /\ budgetCalls' = Append(budgetCalls,
                                  [query |-> ExpenseQuery(budget),
                                   total |-> NoTotal])
            /\ budget' = UpdateStatus(budget, now)
            /\ budgetResult' = [op |-> "save", outcome |-> "saved", at |-> now]
       ELSE /\ budgetResult' = [op |-> "save", outcome |-> "ValidationError",
                                at |-> NoDate]
            /\ UNCHANGED <<budget, budgetCalls>>
    /\ UNCHANGED <<expenseDb, now>>
    /\ UNCHANGED <<expenseVars, groupVars, otherVars>>

\* the sequence s without its i-th element
Without(s, i) == SubSeq(s, 1, i - 1) \o SubSeq(s, i + 1, Len(s))

\* The database runs the aggregation of the i-th pending calculateStats().
BudgetAggregate(i) ==
    /\ i \in 1..Len(budgetCalls)
    /\ budgetCalls[i].total = NoTotal
    /\ budgetCalls' = [budgetCalls EXCEPT
                          ![i].total = TotalSpent(budgetCalls[i].query, expenseDb)]
    /\ UNCHANGED <<budget, budgetResult, expenseDb, now>>
    /\ UNCHANGED <<expenseVars, groupVars, otherVars>>

\* The i-th pending calculateStats() resumes after its await and assigns the
\* stats block of the in-memory document.
BudgetStatsDone(i) ==
    /\ i \in 1..Len(budgetCalls)
    /\ budgetCalls[i].total # NoTotal
    /\ budget' = [budget EXCEPT
                     !.stats = StatsFrom(budget, budgetCalls[i].total, now)]
    /\ budgetCalls' = Without(budgetCalls, i)
    /\ budgetResult' =
           [op |-> "stats", outcome |-> "none",
            at |-> IF budgetResult.op = "save" /\ budgetResult.at = now
                   THEN now ELSE NoDate]
    /\ UNCHANGED <<expenseDb, now>>
    /\ UNCHANGED <<expenseVars, groupVars, otherVars>>

\* the clock advances
Tick ==
    /\ now < MaxTime
    /\ now' = now + 1
    /\ UNCHANGED <<expenseDb, budget, budgetCalls, budgetResult>>
    /\ UNCHANGED <<expenseVars, groupVars, otherVars>>

\* shouldAlert() with the threshold comparison strict
ShouldAlertStrict(b) ==
    RatGt(b.stats.percentageUsed, b.alertThreshold) /\ b.status = "active"

\* shouldAlert()
ShouldAlert(b) ==
    RatGeq(b.stats.percentageUsed, b.alertThreshold) /\ b.status = "active"

\* budget.settings.alertThreshold = th
BudgetSetAlertThreshold(th) ==
    /\ budget.exists
    /\ budget.alertThreshold # th
    /\ budget' = [budget EXCEPT !.alertThreshold = th]
    /\ budgetResult' = BudgetDid("edit")
    /\ UNCHANGED <<budgetCalls, expenseDb, now>>
    /\ UNCHANGED <<expenseVars, groupVars, otherVars>>

\* budget.shouldAlert(): a query; its return value is left in budgetResult
BudgetShouldAlert ==
    /\ budget.exists
    /\ budgetResult' = [op |-> "shouldAlert",
                        outcome |-> IF ShouldAlert(budget) THEN "true"
                                    ELSE "false",
                        at |-> NoDate]
    /\ UNCHANGED <<budget, budgetCalls, expenseDb, now>>
    /\ UNCHANGED <<expenseVars, groupVars, otherVars>>

----------------------------------------------------------------------------
\* The Group model

MemberRoles == {"admin", "member"}

GroupStatuses == {"active", "archived", "deleted"}

NoGroup == [exists |-> FALSE]

\* an inviteCode that was never set (undefined)
NoCode == 0
\* the codes generateInviteCode() can draw
Codes == 1..MaxCodes

\* no roster record (the methods' "not found")
NoMember ==
    [userId |-> NoRef, role |-> "none", joinedAt |-> NoDate, isActive |-> FALSE]

\* new Group({name, createdBy}): an empty roster and the schema's defaults
NewGroup(createdBy) ==
    [exists |-> TRUE, isNew |-> TRUE, createdBy |-> createdBy,
     members |-> <<>>, stats |-> [memberCount |-> 0],
     inviteCode |-> NoCode, status |-> "active", deletedAt |-> NoDate,
     modified |-> {}]

\* the schema's validators on the roster: userId required, role in its enum
GroupValid(g) ==
    \A i \in 1..Len(g.members) :
        g.members[i].userId # NoRef /\ g.members[i].role \in MemberRoles

\* the lookup by userId passing over inactive records
FindActiveMember(members, userId) ==
    IF \E i \in 1..Len(members) :
           members[i].userId = userId /\ members[i].isActive
    THEN CHOOSE i \in 1..Len(members) :
             /\ members[i].userId = userId /\ members[i].isActive
             /\ \A j \in 1..(i - 1) :
                    ~(members[j].userId = userId /\ members[j].isActive)
    ELSE 0

\* members.find / members.findIndex by userId: the index of the first record
\* of userId whatever its isActive, 0 when there is none
FindMember(members, userId) ==
    IF \E i \in 1..Len(members) : members[i].userId = userId
    THEN CHOOSE i \in 1..Len(members) :
             /\ members[i].userId = userId
             /\ \A j \in 1..(i - 1) : members[j].userId # userId
    ELSE 0

\* virtual activeMembers, counted
ActiveCount(members) ==
    Cardinality({i \in 1..Len(members) : members[i].isActive})

\* addMember(userId, role) with `new Date()` = t: the roster it leaves
AddMember(members, userId, role, t) ==
    LET i == FindMember(members, userId)
    IN  IF i # 0
        THEN IF ~members[i].isActive
             THEN [members EXCEPT ![i].isActive = TRUE, ![i].joinedAt = t]
             ELSE members
        ELSE Append(members, [userId |-> userId, role |-> role,
                              joinedAt |-> t, isActive |-> TRUE])

\* removeMember() taking the record out of the roster
DeleteRecord(members, i) == Without(members, i)

\* removeMember(): what it does to the record it found
Deactivate(members, i) == [members EXCEPT ![i].isActive = FALSE]

\* what a construction leaves in groupResult
GroupDid(op) == [op |-> op, userId |-> NoRef, ok |-> TRUE, member |-> NoMember]

\* new Group(...)
GroupNew ==
    /\ ~group.exists
    /\ group' = NewGroup(1)
    /\ groupResult' = GroupDid("new")
    /\ UNCHANGED <<expenseVars, budgetVars, otherVars>>

\* group.addMember(userId, role); the record it returns is left in
\* groupResult.member
GroupAddMember(userId, role) ==
    /\ group.exists
    /\ group' = [group EXCEPT
                    !.members = AddMember(group.members, userId, role, now)]
    /\ groupResult' =
           [op |-> "addMember", userId |-> userId, ok |-> TRUE,
            member |-> group'.members[FindMember(group'.members, userId)]]
    /\ UNCHANGED <<expenseVars, budgetVars, otherVars>>

\* group.removeMember(userId); its return value is left in groupResult.ok
GroupRemoveMember(userId) ==
    /\ group.exists
    /\ IF FindMember(group.members, userId) # 0
       THEN /\ group' = [group EXCEPT
                            !.members =
                                Deactivate(group.members,
                                           FindMember(group.members, userId))]
            /\ groupResult' = [op |-> "removeMember", userId |-> userId,
                               ok |-> TRUE, member |-> NoMember]
       ELSE /\ group' = group
            /\ groupResult' = [op |-> "removeMember", userId |-> userId,
                               ok |-> FALSE, member |-> NoMember]
    /\ UNCHANGED <<expenseVars, budgetVars, otherVars>>

\* isAdmin() without its isActive condition
IsAdminAnyRecord(members, userId) ==
    \E i \in 1..Len(members) :
        members[i].userId = userId /\ members[i].role = "admin"

\* isMember(userId)
IsMember(members, userId) ==
    \E i \in 1..Len(members) :
        members[i].userId = userId /\ members[i].isActive

\* isAdmin(userId)
IsAdmin(members, userId) ==
    \E i \in 1..Len(members) :
        /\ members[i].userId = userId
        /\ members[i].role = "admin"
        /\ members[i].isActive

\* group.isMember(userId); its return value is left in groupResult.ok
GroupIsMember(userId) ==
    /\ group.exists
    /\ groupResult' = [op |-> "isMember", userId |-> userId,
                       ok |-> IsMember(group.members, userId),
                       member |-> NoMember]
    /\ UNCHANGED group
    /\ UNCHANGED <<expenseVars, budgetVars, otherVars>>

\* group.isAdmin(userId); its return value is left in groupResult.ok
GroupIsAdmin(userId) ==
    /\ group.exists
    /\ groupResult' = [op |-> "isAdmin", userId |-> userId,
                       ok |-> IsAdmin(group.members, userId),
                       member |-> NoMember]
    /\ UNCHANGED group
    /\ UNCHANGED <<expenseVars, budgetVars, otherVars>>

\* group.status = st: the group is archived, deleted or restored
GroupSetStatus(st) ==
    /\ group.exists
    /\ group.status # st
    /\ group' = [group EXCEPT !.status = st,
                              !.modified = group.modified \cup {"status"}]
    /\ groupResult' = GroupDid("status")
    /\ UNCHANGED <<expenseVars, budgetVars, otherVars>>

\* an insert without the unique index on inviteCode
CodeNeverTaken(code, codes) == FALSE

\* The unique sparse index on inviteCode: whether a stored group holds code
\* already (an unset inviteCode is not indexed).
CodeTaken(code, codes) ==
    code # NoCode /\ \E i \in 1..Len(codes) : codes[i] = code

\* the invite codes of all stored groups: the other groups' and, once it was
\* inserted, this group's
StoredCodes(g, others) ==
    IF g.exists /\ ~g.isNew THEN Append(others, g.inviteCode) ELSE others

\* The two pre-save hooks, with `new Date()` = t and code the value
\* generateInviteCode() draws: memberCount from the active members, an invite
\* code for a new group that has none; deletedAt for a status changed to
\* deleted.
GroupPreSave(g, code, t) ==
    [g EXCEPT
        !.stats.memberCount = ActiveCount(g.members),
        !.inviteCode = IF g.isNew /\ g.inviteCode = NoCode THEN code
                       ELSE g.inviteCode,
        !.deletedAt = IF "status" \in g.modified /\ g.status = "deleted"
                      THEN t ELSE g.deletedAt]

\* group.save(): the validators, then the pre-save hooks, then the write.  The
\* insert of a new group whose inviteCode another stored group holds fails on
\* the unique index: the document keeps what the hooks assigned and stays
\* new.
GroupSave(code) ==
    /\ group.exists
    /\ IF GroupValid(group)
       THEN IF /\ group.isNew
               /\ CodeTaken(GroupPreSave(group, code, now).inviteCode, groupDb)
            THEN /\ group' = GroupPreSave(group, code, now)
                 /\ groupResult' = [GroupDid("save") EXCEPT !.ok = FALSE]
            ELSE /\ group' = [GroupPreSave(group, code, now) EXCEPT
                                 !.isNew = FALSE, !.modified = {}]
                 /\ groupResult' = [GroupDid("save") EXCEPT !.ok = TRUE]
       ELSE /\ group' = group
            /\ groupResult' = [GroupDid("save") EXCEPT !.ok = FALSE]
    /\ UNCHANGED <<expenseVars, budgetVars, otherVars>>

\* Another group is created and saved for the first time, drawing code; the
\* insert fails when a stored group holds the code.
OtherGroupSave(code) ==
    /\ Len(groupDb) < MaxOtherGroups
    /\ groupDb' = IF CodeTaken(code, StoredCodes(group, groupDb))
                  THEN groupDb ELSE Append(groupDb, code)
    /\ UNCHANGED <<userGroups, categories, categoryResult, response>>
    /\ UNCHANGED <<expenseVars, budgetVars, groupVars>>

----------------------------------------------------------------------------
\* The Category model

\* no category stored under an id; a category without a parent has
\* parentCategory = NoRef (the schema's default, null)
NoCategory == [exists |-> FALSE, parentCategory |-> NoRef]

\* what the last save of a category did
CategoryDid(op) == [op |-> op, id |-> NoRef, parentCategory |-> NoRef, ok |-> TRUE]

\* The pre-save hook: whether the category is entered as its own parent
\* (`parentCategory.equals(this._id)`).
IsOwnParent(id, parent) == parent # NoRef /\ parent = id

\* category.save() of the category id, new or stored, with parentCategory =
\* parent (NoRef: none).  The hook fails the save of a category that is its
\* own parent; every other save is written.
CategorySave(id, parent) ==
    /\ IF IsOwnParent(id, parent)
       THEN /\ categories' = categories
            /\ categoryResult' = [op |-> "save", id |-> id,
                                  parentCategory |-> parent, ok |-> FALSE]
       ELSE /\ categories' = [categories EXCEPT
                                 ![id] = [exists |-> TRUE,
                                          parentCategory |-> parent]]
            /\ categoryResult' = [op |-> "save", id |-> id,
                                  parentCategory |-> parent, ok |-> TRUE]
    /\ UNCHANGED <<groupDb, userGroups, response>>
    /\ UNCHANGED <<expenseVars, budgetVars, groupVars>>

----------------------------------------------------------------------------
\* The controllers

\* no handler has answered yet
NoResponse == [op |-> "none", code |-> 0, total |-> 0]

\* What the roster's array makes of a bare id put where a member belongs
\* (`members: [...members, createdBy]`, `members.push(memberId)`): the id is
\* taken as the _id of a subdocument, which gets the schema's defaults and no
\* userId.
CastId(id, t) ==
    [userId |-> NoRef, role |-> "member", joinedAt |-> t, isActive |-> TRUE]

\* `members: userId` in a query filter and `members.includes(memberId)`:
\* whether an element of the roster is the id itself.  The comparison is with
\* the element, not with its userId, and the elements of the roster are
\* subdocuments.
RosterIncludes(members, id) ==
    \E i \in 1..Len(members) :
        DOMAIN members[i] = {"_id"} /\ members[i]._id = id

RECURSIVE CastIds(_, _)
\* the roster built from a list of bare ids
CastIds(ids, t) ==
    IF ids = <<>> THEN <<>>
    ELSE <<CastId(Head(ids), t)>> \o CastIds(Tail(ids), t)

\* what a handler of the group controller answers
GroupResponse(op, code) == [op |-> op, code |-> code, total |-> 0]

\* the id of the one group stored
GroupId == 1

\* the group document is not ahead of its stored copy
GroupInSync ==
    group.exists => (group.isNew \/ (groupResult.op = "save" /\ groupResult.ok))

\* POST create group, by createdBy with the body's members: the group is
\* built with the ids as its roster and saved, the group is pushed on the
\* users' groups lists, 201; any error answers 500.
CreateGroup(members, createdBy) ==
    /\ IF /\ ~group.exists
          /\ GroupValid([NewGroup(createdBy) EXCEPT
                            !.members = CastIds(Append(members, createdBy), now)])
       THEN /\ group' = [GroupPreSave(
                            [NewGroup(createdBy) EXCEPT
                                !.members = CastIds(Append(members, createdBy),
                                                    now)],
                            1, now)
                           EXCEPT !.isNew = FALSE]
            /\ groupResult' = [GroupDid("save") EXCEPT !.ok = TRUE]
            /\ userGroups' =
                   [u \in Users |->
                       IF \E i \in 1..Len(members) : members[i] = u
                          \/ u = createdBy
                       THEN Append(userGroups[u], GroupId)
                       ELSE userGroups[u]]
            /\ response' = GroupResponse("createGroup", 201)
       ELSE /\ response' = GroupResponse("createGroup", 500)
            /\ UNCHANGED <<group, groupResult, userGroups>>
    /\ UNCHANGED <<groupDb, categories, categoryResult>>
    /\ UNCHANGED <<expenseVars, budgetVars>>

\* POST add member, by userId for memberId: 404 unless the stored group's
\* members hold userId; 400 when they include memberId; otherwise memberId is
\* pushed on the roster, the group saved and pushed on the user's groups
\* list; any error answers 500.
AddMemberToGroup(userId, memberId) ==
    /\ GroupInSync
    /\ IF ~(/\ group.exists
            /\ ~group.isNew
            /\ RosterIncludes(group.members, userId))
       THEN /\ response' = GroupResponse("addMemberToGroup", 404)
            /\ UNCHANGED <<group, groupResult, userGroups>>
       ELSE IF RosterIncludes(group.members, memberId)
       THEN /\ response' = GroupResponse("addMemberToGroup", 400)
            /\ UNCHANGED <<group, groupResult, userGroups>>
       ELSE IF GroupValid([group EXCEPT
                              !.members = Append(group.members,
                                                 CastId(memberId, now))])
       THEN /\ group' = [GroupPreSave(
                            [group EXCEPT
                                !.members = Append(group.members,
                                                   CastId(memberId, now))],
                            1, now)
                           EXCEPT !.modified = {}]
            /\ groupResult' = [GroupDid("save") EXCEPT !.ok = TRUE]
            /\ userGroups' = [userGroups EXCEPT
                                 ![memberId] = Append(userGroups[memberId],
                                                      GroupId)]
            /\ response' = GroupResponse("addMemberToGroup", 200)
       ELSE /\ response' = GroupResponse("addMemberToGroup", 500)
            /\ UNCHANGED <<group, groupResult, userGroups>>
    /\ UNCHANGED <<groupDb, categories, categoryResult>>
    /\ UNCHANGED <<expenseVars, budgetVars>>

\* The $match filter of getExpenseStats: the user's expenses, within the
\* date range when both startDate and endDate are given.
StatsQuery(userId, startDate, endDate) ==
    [userId |-> userId,
     ranged |-> (startDate # NoDate /\ endDate # NoDate),
     startDate |-> startDate, endDate |-> endDate]

\* whether expense e passes the $match stage of getExpenseStats
StatsMatches(q, e) ==
    /\ e.userId = q.userId
    /\ q.ranged => (e.date >= q.startDate /\ e.date <= q.endDate)

RECURSIVE StatsTotal(_, _)
\* the $group stage of getExpenseStats: the sum of amount over the matching
\* documents
StatsTotal(q, db) ==
    IF db = <<>> THEN 0
    ELSE (IF StatsMatches(q, Head(db)) THEN Head(db).amount ELSE 0)
         + StatsTotal(q, Tail(db))

\* GET expense stats of userId, with startDate and endDate of the query
\* string (NoDate: not given): answers the aggregation's totals.
GetExpenseStats(userId, startDate, endDate) ==
    /\ response' = [op |-> "getExpenseStats", code |-> 200,
                    total |-> StatsTotal(StatsQuery(userId, startDate, endDate),
                                         expenseDb)]
    /\ UNCHANGED <<groupDb, userGroups, categories, categoryResult>>
    /\ UNCHANGED <<expenseVars, budgetVars, groupVars>>

----------------------------------------------------------------------------
\* Specifications

\* the split requests entered: every participant list up to MaxSplit long,
\* and custom shares for the users 1..n in order
SplitLists == UNION {[1..n -> Users] : n \in 0..MaxSplit}
CustomSplits ==
    UNION {{[i \in 1..n |-> [userId |-> i, amount |-> f[i]]] :
               f \in [1..n -> 0..MaxAmount]} : n \in 0..MaxCustom}

ExpenseInit ==
    /\ expense = NoExpense
    /\ expenseResult = NoResult("none")

BudgetInit ==
    /\ expenseDb = <<>>
    /\ budget = NoBudget
    /\ budgetCalls = <<>>
    /\ budgetResult = BudgetDid("none")
    /\ now = 0

GroupInit ==
    /\ group = NoGroup
    /\ groupResult = GroupDid("none")

OtherInit ==
    /\ groupDb = <<>>
    /\ userGroups = [u \in Users |-> <<>>]
    /\ categories = [c \in 1..MaxCategories |-> NoCategory]
    /\ categoryResult = CategoryDid("none")
    /\ response = NoResponse

Init == ExpenseInit /\ BudgetInit /\ GroupInit /\ OtherInit

\* The expense document: built once, then edited and saved any number of
\* times.
NextExpense ==
    \/ \E t \in ExpenseTypes, a \in 0..MaxAmount : ExpenseNew(t, a, <<>>, <<>>)
    \/ \E a \in 0..MaxAmount : ExpenseSetAmount(a)
    \/ \E sb \in SplitLists : ExpenseSetSplitBetween(sb)
    \/ \E sa \in CustomSplits : ExpenseSetSplitAmounts(sa)
    \/ ExpenseSave

SpecExpense == Init /\ [][NextExpense]_vars

\* The budget document, the expenses it aggregates and the clock.
NextBudget ==
    \/ \E a \in 1..MaxBudget : BudgetNew(a, BudgetStart, BudgetEnd)
    \/ \E a \in 1..MaxBudget : BudgetSetAmount(a)
    \/ \E s \in {"paused", "cancelled", "active"} : BudgetSetStatus(s)
    \/ BudgetSave
    \/ \E i \in 1..MaxCalls : BudgetAggregate(i)
    \/ \E i \in 1..MaxCalls : BudgetStatsDone(i)
    \/ Tick
    \/ StoreExpense(1, "personal", 1, BudgetStart)

SpecBudget == Init /\ [][NextBudget]_vars

\* The same, with expenses that are soft-deleted again.
NextLedger ==
    \/ NextBudget
    \/ \E i \in 1..MaxExpenses : DeleteExpense(i)

SpecLedger == Init /\ [][NextLedger]_vars

\* An expense and a group, their status changed and saved as time passes.
NextLifecycle ==
    \/ ExpenseNew("personal", 1, <<>>, <<>>)
    \/ \E st \in ExpenseStatuses : ExpenseSetStatus(st)
    \/ ExpenseSave
    \/ GroupNew
    \/ \E st \in GroupStatuses : GroupSetStatus(st)
    \/ GroupSave(1)
    \/ (now < MaxJoinTime /\ Tick)

SpecLifecycle == Init /\ [][NextLifecycle]_vars

\* the members lists of a create request
MemberLists == {<<>>, <<2>>, <<1, 2>>}

\* A group built and saved through the model, and the requests of the group
\* controller.
NextController ==
    \/ GroupNew
    \/ \E u \in 1..MaxMembers, r \in MemberRoles : GroupAddMember(u, r)
    \/ GroupSave(1)
    \/ \E ms \in MemberLists : CreateGroup(ms, 1)
    \/ \E u \in 1..MaxMembers, m \in 1..MaxMembers : AddMemberToGroup(u, m)

SpecController == Init /\ [][NextController]_vars

\* The categories, saved with any parent.
NextCategory ==
    \E id \in 1..MaxCategories, parent \in 0..MaxCategories :
        CategorySave(id, parent)

SpecCategory == Init /\ [][NextCategory]_vars

\* A budget in TRY and expenses stored in TRY and in USD.
NextCurrency ==
    \/ \E a \in 1..MaxBudget : BudgetNew(a, BudgetStart, BudgetEnd)
    \/ BudgetSave
    \/ \E i \in 1..MaxCalls : BudgetAggregate(i)
    \/ \E i \in 1..MaxCalls : BudgetStatsDone(i)
    \/ Tick
    \/ \E c \in {"TRY", "USD"} :
           StoreExpenseIn(1, "personal", 1, BudgetStart, c)

SpecCurrency == Init /\ [][NextCurrency]_vars

\* the date ranges asked of getExpenseStats: none, and the budget's
StatsRanges == {<<NoDate, NoDate>>, <<BudgetStart, BudgetEnd>>}

\* The expenses of two users, stored, soft-deleted, and summed for the
\* statistics endpoint.
NextStats ==
    \/ \E u \in 1..2, a \in 1..MaxAmount, d \in {BudgetStart, BudgetEnd + 1} :
           StoreExpense(u, "personal", a, d)
    \/ \E i \in 1..MaxExpenses : DeleteExpense(i)
    \/ \E u \in 1..2, r \in StatsRanges : GetExpenseStats(u, r[1], r[2])

SpecStats == Init /\ [][NextStats]_vars

\* the alert thresholds entered (the schema accepts 0..100)
AlertThresholds == {0, 50, DefaultAlertThreshold, 100}

\* The budget's alert: budgets of every amount, status and threshold, their
\* stats recomputed from the stored expenses, asked whether to alert.
NextAlert ==
    \/ \E a \in 1..MaxBudget : BudgetNew(a, BudgetStart, BudgetEnd)
    \/ StoreExpense(1, "personal", 1, BudgetStart)
    \/ BudgetSave
    \/ \E i \in 1..MaxCalls : BudgetAggregate(i)
    \/ \E i \in 1..MaxCalls : BudgetStatsDone(i)
    \/ \E st \in BudgetStatuses : BudgetSetStatus(st)
    \/ \E th \in AlertThresholds : BudgetSetAlertThreshold(th)
    \/ BudgetShouldAlert

SpecAlert == Init /\ [][NextAlert]_vars

\* midnight of the calendar date y-m-d
DateOf(y, m, d) == DaysFromCivil(y, m, d) * TicksPerDay

\* the expense dates and recurrence end dates entered: month ends and the
\* leap day, where the calendar arithmetic has its cases
RecurrenceDates == {DateOf(2024, 1, 31), DateOf(2024, 2, 29)}
RecurrenceEndDates ==
    {NoDate, DateOf(2024, 2, 29), DateOf(2024, 3, 1), DateOf(2025, 2, 28)}

\* The recurrence of an expense: a personal expense is built, its date and
\* recurrence pattern edited, and saved any number of times.  Interval 0 is
\* entered too; the schema rejects it.
NextRecurrence ==
    \/ ExpenseNew("personal", 1, <<>>, <<>>)
    \/ \E d \in RecurrenceDates : ExpenseSetDate(d)
    \/ \E b \in BOOLEAN : ExpenseSetIsRecurring(b)
    \/ \E f \in Frequencies : ExpenseSetFrequency(f)
    \/ \E k \in 0..MaxInterval : ExpenseSetInterval(k)
    \/ \E d \in RecurrenceEndDates : ExpenseSetEndDate(d)
    \/ ExpenseSave

SpecRecurrence == Init /\ [][NextRecurrence]_vars

\* The group's roster: members are added and removed, the group saved, and
\* the clock advances between the calls.
NextGroup ==
    \/ GroupNew
    \/ \E u \in 1..MaxMembers, r \in MemberRoles : GroupAddMember(u, r)
    \/ \E u \in 1..MaxMembers : GroupRemoveMember(u)
    \/ GroupSave(1)
    \/ (now < MaxJoinTime /\ Tick)

SpecGroup == Init /\ [][NextGroup]_vars

\* Membership queries on a roster that members join and leave.
NextMembership ==
    \/ GroupNew
    \/ \E u \in 1..MaxMembers, r \in MemberRoles : GroupAddMember(u, r)
    \/ \E u \in 1..MaxMembers : GroupRemoveMember(u)
    \/ \E u \in 1..MaxMembers : GroupIsMember(u)
    \/ \E u \in 1..MaxMembers : GroupIsAdmin(u)

SpecMembership == Init /\ [][NextMembership]_vars

\* A group among other groups: created, saved, its membership and status
\* changed and saved again, while other groups are created with invite codes
\* of their own.
NextInvite ==
    \/ GroupNew
    \/ GroupAddMember(1, "member")
    \/ GroupRemoveMember(1)
    \/ \E st \in GroupStatuses : GroupSetStatus(st)
    \/ \E c \in Codes : GroupSave(c)
    \/ \E c \in Codes : OtherGroupSave(c)

SpecInvite == Init /\ [][NextInvite]_vars

----------------------------------------------------------------------------
\* Claims about the expense split (SpecExpense)

\* the last operation was a save() that wrote the document
ExpenseSaved == expenseResult.op = "save" /\ expenseResult.outcome = "saved"

\* the last save() computed the equal split: a group expense with
\* participants was handed in without splitAmounts
EqualSplitSaved ==
    /\ ExpenseSaved
    /\ expense.type = "group"
    /\ Len(expense.splitBetween) > 0
    /\ expenseResult.supplied = <<>>

\* C1: when a group expense with a non-empty participant list is saved
\* without splitAmounts, the splitAmounts the save hook computes sum to the
\* expense amount exactly.
C1_EqualSplitConserves ==
    EqualSplitSaved => SumShares(expense.splitAmounts) = expense.amount

\* C2: every saved expense that has splitAmounts satisfies
\* sum(splitAmounts) = amount, whatever creates, edits and saves came before.
C2_SavedSplitSumsToAmount ==
    (ExpenseSaved /\ Len(expense.splitAmounts) > 0)
        => SumShares(expense.splitAmounts) = expense.amount

\* the share of the i-th of n participants under the remainder distribution:
\* base = round2(amount / n), and the remainder amount - base * n handed out
\* one minimal unit at a time in the participants' order
RemainderShare(amount, n, i) ==
    LET base == MathRound(amount, n)
    IN  base + (IF i <= amount - base * n THEN 1 ELSE 0)

\* C3: the equal split gives every participant base = round2(amount / count)
\* and hands the remainder amount - base * count out one minimal unit at a
\* time in the participants' order (stated for the splits whose remainder is
\* not negative, as in 100.00 over three participants).
C3_RemainderDistributed ==
    (EqualSplitSaved /\ ~HasDuplicate(expense.splitBetween)
        /\ expense.amount
             >= MathRound(expense.amount, Len(expense.splitBetween))
                  * Len(expense.splitBetween))
        => /\ Len(expense.splitAmounts) = Len(expense.splitBetween)
           /\ \A i \in 1..Len(expense.splitBetween) :
                  /\ expense.splitAmounts[i].userId = expense.splitBetween[i]
                  /\ expense.splitAmounts[i].amount
                        = RemainderShare(expense.amount,
                                         Len(expense.splitBetween), i)

\* C4: a save of a valid group expense with caller-supplied splitAmounts
\* leaves them unmodified, succeeds when their sum equals amount, and signals
\* AmountMismatch when it does not.
C4_CustomSplitValidated ==
    (expenseResult.op = "save" /\ expense.type = "group"
        /\ ExpenseValid(expense) /\ Len(expenseResult.supplied) > 0)
        => /\ expense.splitAmounts = expenseResult.supplied
           /\ IF SumShares(expenseResult.supplied) = expense.amount
              THEN expenseResult.outcome = "saved"
              ELSE expenseResult.outcome = "AmountMismatch"

\* C5: a saved expense with participants has no participant twice in
\* splitBetween, and none twice in the splitAmounts computed from it: a save
\* with a duplicate in the list is rejected, not stored.
C5_NoDuplicateParticipant ==
    (ExpenseSaved /\ Len(expense.splitBetween) > 0)
        => /\ ~HasDuplicate(expense.splitBetween)
           /\ (EqualSplitSaved =>
                 ~HasDuplicate([i \in 1..Len(expense.splitAmounts) |->
                                   expense.splitAmounts[i].userId]))

----------------------------------------------------------------------------
\* Claims about the budget (SpecBudget, SpecLedger)

\* the last operation was a save() that wrote the document, and the document
\* is still as it was written
BudgetSaved == budgetResult.op = "save" /\ budgetResult.outcome = "saved"

StickyStatuses == {"paused", "cancelled"}

\* the status rule as the specification tabulates it
RuleStatus(spentAmount, amount, t, endDate) ==
    IF t > endDate /\ spentAmount > amount THEN "exceeded"
    ELSE IF t > endDate /\ spentAmount <= amount THEN "completed"
    ELSE IF t <= endDate /\ spentAmount > amount THEN "exceeded"
    ELSE "active"

\* C6: for a budget whose status is not paused or cancelled, the
\* updateStatus() of a save sets the status by the rule: exceeded if
\* spentAmount > amount (expired or not), completed if now > endDate and
\* spentAmount <= amount, active otherwise; spentAmount = amount is not
\* exceeded and now = endDate is not expired.
C6_StatusRule ==
    [][(BudgetSave /\ BudgetValid(budget)
            /\ budget.status \notin StickyStatuses)
         => budget'.status = RuleStatus(budget.stats.spentAmount,
                                        budget.amount, now, budget.endDate)]_vars

\* a save derived the status at the two boundaries at once: spentAmount equal
\* to amount and now equal to endDate
C6_Witness ==
    /\ BudgetSaved
    /\ budget.stats.spentAmount = budget.amount
    /\ now = budget.endDate
    /\ budget.status = "active"

\* C7: once the status is paused or cancelled, no save and no recomputation
\* changes it, whatever spentAmount, amount, endDate and now are; only an
\* explicit assignment of the status does.
C7_StickyStatus ==
    [][(budget.exists /\ budget.status \in StickyStatuses
            /\ ~(\E s \in BudgetStatuses : BudgetSetStatus(s)))
         => budget'.status = budget.status]_vars

\* a paused budget was saved while over its amount and past its end date
C7_Witness ==
    /\ BudgetSaved
    /\ budget.status = "paused"
    /\ budget.stats.spentAmount > budget.amount
    /\ now > budget.endDate

\* C8: a recomputation pass (save, with its calculateStats and updateStatus)
\* run right after a completed pass, with the same matching expenses and the
\* same now, leaves the status as the first pass left it (the stats it
\* recomputes from the same inputs are the same by construction).
C8_PassIdempotent ==
    [][(BudgetSave /\ BudgetValid(budget)
            /\ budgetResult.op = "stats" /\ budgetResult.at = now
            /\ budgetCalls = <<>>
            /\ budget.stats
                 = StatsFrom(budget,
                             TotalSpent(ExpenseQuery(budget), expenseDb), now))
         => budget'.status = budget.status]_vars

\* C9: percentageUsed is never negative, and a budget whose stats were
\* recomputed for its amount is saved without the save being rejected, also
\* when percentageUsed is above 100.
C9_PercentageBound ==
    budget.exists
        => /\ RatGeq(budget.stats.percentageUsed, 0)
           /\ (budgetResult.op = "save"
                 /\ budget.stats.percentageUsed
                      = Rat(budget.stats.spentAmount * 100, budget.amount))
               => budgetResult.outcome = "saved"

\* C10: every persisted budget state has
\* stats.remainingAmount = max(0, amount - stats.spentAmount).
C10_RemainingAmount ==
    BudgetSaved
        => budget.stats.remainingAmount
             = Max(0, budget.amount - budget.stats.spentAmount)

\* the last operation was a calculateStats() that assigned the stats block
BudgetRecomputed == budget.exists /\ budgetResult.op = "stats"

\* daysElapsed floored at 0: ceil((t - startDate) in days), 0 before startDate
DaysElapsedFloored(b, t) ==
    IF t <= b.startDate THEN 0 ELSE CeilDiv(t - b.startDate, TicksPerDay)

\* C11: after a recomputation at time t (stats.lastUpdated), averageDailySpent
\* is spentAmount / daysElapsed with daysElapsed = ceil((t - startDate) in
\* days) floored at 0: it is 0 for a budget recomputed before its startDate.
C11_DaysElapsedFloored ==
    BudgetRecomputed
        => LET t == budget.stats.lastUpdated
               days == DaysElapsedFloored(budget, t)
           IN  budget.stats.averageDailySpent
                 = (IF days > 0 THEN Rat(budget.stats.spentAmount, days)
                    ELSE Rat(0, 1))

\* shouldAlert() was the last operation, and returned true
AlertAsked == budget.exists /\ budgetResult.op = "shouldAlert"
Alerted == AlertAsked /\ budgetResult.outcome = "true"

\* C12: shouldAlert() returns true iff the status is active and percentageUsed
\* is at least alertThreshold, the boundary included; a budget that is
\* exceeded, completed, paused or cancelled never alerts.
C12_ShouldAlert ==
    AlertAsked
        => /\ Alerted <=>
                (/\ budget.status = "active"
                 /\ budget.stats.percentageUsed.num
                      >= budget.alertThreshold * budget.stats.percentageUsed.den)
           /\ budget.status \in {"exceeded", "completed", "paused", "cancelled"}
                 => ~Alerted

\* an active budget alerted with percentageUsed exactly at a threshold above 0
C12_Witness ==
    /\ Alerted
    /\ budget.alertThreshold > 0
    /\ budget.stats.percentageUsed = Rat(budget.alertThreshold, 1)

----------------------------------------------------------------------------
\* Claims about the recurrence (SpecRecurrence)

\* the last save() computed a next occurrence and kept the recurrence going
RecurrenceSaved == ExpenseSaved /\ expense.isRecurring

\* C13: in every saved expense with isRecurring true, nextOccurrence is set
\* and strictly later than the expense date, whatever the frequency (a
\* missing one included) and the interval.
C13_NextOccurrenceLater ==
    RecurrenceSaved
        => /\ expense.recurringPattern.nextOccurrence # NoDate
           /\ expense.recurringPattern.nextOccurrence > expense.date

\* the number of days of month m of year y
DaysInMonth(y, m) ==
    IF m = 12 THEN 31 ELSE DaysFromCivil(y, m + 1, 1) - DaysFromCivil(y, m, 1)

\* the calendar date y-m-d at the time of day of t, with d clamped to the
\* last day of the month when the month is shorter
ClampedDate(y, m, d, t) ==
    LET dd == IF d > DaysInMonth(y, m) THEN DaysInMonth(y, m) ELSE d
    IN  DaysFromCivil(y, m, dd) * TicksPerDay + FloorMod(t, TicksPerDay)

\* k calendar months after t, end of month clamped
ClampedAddMonths(t, k) ==
    LET c == CivilFromDays(FloorDiv(t, TicksPerDay))
        m0 == (c.m - 1) + k
    IN  ClampedDate(c.y + FloorDiv(m0, 12), FloorMod(m0, 12) + 1, c.d, t)

\* k calendar years after t, Feb 29 clamped to Feb 28
ClampedAddYears(t, k) ==
    LET c == CivilFromDays(FloorDiv(t, TicksPerDay))
    IN  ClampedDate(c.y + k, c.m, c.d, t)

\* the next occurrence as the recurrence rule defines it, for a pattern with
\* a frequency
ClampedNext(e) ==
    LET p == e.recurringPattern
    IN  CASE p.frequency = "daily" -> AddDays(e.date, p.interval)
          [] p.frequency = "weekly" -> AddDays(e.date, p.interval * 7)
          [] p.frequency = "monthly" -> ClampedAddMonths(e.date, p.interval)
          [] p.frequency = "yearly" -> ClampedAddYears(e.date, p.interval)

\* C14: a save of a recurring expense ends the recurrence (isRecurring false,
\* nextOccurrence cleared) exactly when an endDate is set and the next
\* occurrence, computed by the calendar rule, is strictly later than endDate;
\* a next occurrence on or before endDate keeps the recurrence going with
\* nextOccurrence set.
C14_StopsExactlyPastEndDate ==
    [][(/\ ExpenseSave
        /\ ExpenseValid(expense)
        /\ expense.isRecurring
        /\ expense.recurringPattern.frequency \in Frequencies)
         => IF /\ expense.recurringPattern.endDate # NoDate
               /\ ClampedNext(expense) > expense.recurringPattern.endDate
            THEN /\ ~expense'.isRecurring
                 /\ expense'.recurringPattern.nextOccurrence = NoDate
            ELSE /\ expense'.isRecurring
                 /\ expense'.recurringPattern.nextOccurrence # NoDate]_vars

\* C15: once a save has ended the recurrence, no later save and no edit of
\* date, endDate, frequency or interval sets isRecurring back to true or
\* writes a nextOccurrence; only an assignment of isRecurring does.
C15_StoppedStays ==
    [][(/\ expenseResult.stopped
        /\ ~(\E b \in BOOLEAN : ExpenseSetIsRecurring(b)))
         => /\ ~expense'.isRecurring
            /\ expense'.recurringPattern.nextOccurrence = NoDate
            /\ expenseResult'.stopped]_vars

\* a stopped expense was saved again after its pattern was edited so that the
\* next occurrence no longer passes endDate
C15_Witness ==
    /\ ExpenseSaved
    /\ expenseResult.stopped
    /\ ~expense.isRecurring
    /\ expense.recurringPattern.frequency \in Frequencies
    /\ \/ expense.recurringPattern.endDate = NoDate
       \/ CalculateNextOccurrence(expense).recurringPattern.nextOccurrence
             # NoDate

\* C16: for the monthly frequency the next occurrence is the same day of
\* month interval calendar months later, clamped to the last day of a shorter
\* target month (2024-01-31 + 1 month = 2024-02-29); for the yearly frequency
\* a Feb-29 anchor maps to Feb 28 in a year that is no leap year.
C16_EndOfMonthClamped ==
    (RecurrenceSaved /\ expense.recurringPattern.frequency = "monthly"
        => expense.recurringPattern.nextOccurrence
             = ClampedAddMonths(expense.date, expense.recurringPattern.interval))
    /\ (RecurrenceSaved /\ expense.recurringPattern.frequency = "yearly"
        => expense.recurringPattern.nextOccurrence
             = ClampedAddYears(expense.date, expense.recurringPattern.interval))

----------------------------------------------------------------------------
\* Claims about the group roster (SpecGroup)

\* the indices of the roster records of userId
RecordsOf(members, userId) ==
    {i \in 1..Len(members) : members[i].userId = userId}

\* C17: addMember leaves the roster unchanged and returns the record when an
\* active record of the user exists; reactivates an inactive record, joinedAt
\* reset, without appending; appends exactly one active record otherwise.  So
\* every user has at most one record, and a second addMember for the same
\* user leaves roster and memberCount as the first left them.
C17_AddMemberSemantics ==
    [][\A u \in 1..MaxMembers, r \in MemberRoles :
         GroupAddMember(u, r) =>
           LET old == group.members
               new == group'.members
               recs == RecordsOf(old, u)
           IN  /\ IF \E i \in recs : old[i].isActive
                  THEN /\ new = old
                       /\ \E i \in recs : groupResult'.member = old[i]
                  ELSE IF recs # {}
                  THEN /\ Len(new) = Len(old)
                       /\ \A i \in 1..Len(old) :
                            IF i \in recs
                            THEN new[i] = [old[i] EXCEPT !.isActive = TRUE,
                                                         !.joinedAt = now]
                            ELSE new[i] = old[i]
                       /\ \E i \in recs : groupResult'.member = new[i]
                  ELSE /\ new = Append(old, [userId |-> u, role |-> r,
                                             joinedAt |-> now,
                                             isActive |-> TRUE])
                       /\ groupResult'.member = new[Len(new)]
               /\ \A v \in 1..MaxMembers : Cardinality(RecordsOf(new, v)) <= 1
               /\ (groupResult.op = "addMember" /\ groupResult.userId = u)
                     => /\ new = old
                        /\ group'.stats.memberCount = group.stats.memberCount]_vars

\* a removed member was added again: the first record of the roster, older
\* than the second, is active with a joinedAt later than the second's, and
\* is the record addMember returned
C17_Witness ==
    /\ group.exists
    /\ groupResult.op = "addMember"
    /\ Len(group.members) = 2
    /\ groupResult.member = group.members[1]
    /\ group.members[1].isActive
    /\ group.members[1].joinedAt = now
    /\ group.members[2].joinedAt < now

\* C18: after every addMember and every removeMember call, stats.memberCount
\* equals the number of roster records with isActive = true.
C18_MemberCountCurrent ==
    (group.exists /\ groupResult.op \in {"addMember", "removeMember"})
        => group.stats.memberCount = ActiveCount(group.members)

\* C19: removeMember returns true only when it turned an active record
\* inactive; with no active record of the user (none at all, or only an
\* inactive one) it returns false and leaves the roster unchanged.
C19_RemoveMemberNotFound ==
    [][\A u \in 1..MaxMembers :
         GroupRemoveMember(u) =>
           IF \E i \in RecordsOf(group.members, u) : group.members[i].isActive
           THEN /\ groupResult'.ok
                /\ \A i \in RecordsOf(group.members, u) :
                       ~group'.members[i].isActive
           ELSE /\ ~groupResult'.ok
                /\ group'.members = group.members]_vars

\* C20: no addMember and no removeMember takes a record off the roster: the
\* list never shrinks, every record keeps its place, userId and role, and a
\* removal changes nothing but isActive, which it sets to false.
C20_RecordsKept ==
    [][group.exists =>
         /\ Len(group'.members) >= Len(group.members)
         /\ \A i \in 1..Len(group.members) :
                /\ group'.members[i].userId = group.members[i].userId
                /\ group'.members[i].role = group.members[i].role
         /\ \A u \in 1..MaxMembers :
                GroupRemoveMember(u) =>
                  \A i \in 1..Len(group.members) :
                      \/ group'.members[i] = group.members[i]
                      \/ /\ group.members[i].userId = u
                         /\ group'.members[i]
                              = [group.members[i] EXCEPT !.isActive = FALSE]]_vars

\* an admin was removed: the record is still first on the roster, inactive,
\* with its role, ahead of a member who joined later
C20_Witness ==
    /\ group.exists
    /\ groupResult.op = "removeMember"
    /\ groupResult.ok
    /\ Len(group.members) = 2
    /\ group.members[1].userId = groupResult.userId
    /\ group.members[1].role = "admin"
    /\ ~group.members[1].isActive

\* C21: isMember(u) returns true exactly when u has an active record, and
\* isAdmin(u) exactly when u has an active record with role admin.  After
\* removeMember(u) both are false for u.  After addMember for a removed admin,
\* isAdmin(u) is true again whatever role the call names: the stored role
\* counts.
C21_MembershipPredicates ==
    [][/\ \A u \in 1..MaxMembers :
            /\ GroupIsMember(u) =>
                 (groupResult'.ok <=>
                    \E i \in RecordsOf(group.members, u) :
                        group.members[i].isActive)
            /\ GroupIsAdmin(u) =>
                 (groupResult'.ok <=>
                    \E i \in RecordsOf(group.members, u) :
                        /\ group.members[i].isActive
                        /\ group.members[i].role = "admin")
            /\ GroupRemoveMember(u) =>
                 /\ ~IsMember(group'.members, u)
                 /\ ~IsAdmin(group'.members, u)
            /\ \A r \in MemberRoles :
                 GroupAddMember(u, r) =>
                   /\ IsMember(group'.members, u)
                   /\ \A i \in RecordsOf(group.members, u) :
                        IsAdmin(group'.members, u)
                            <=> group.members[i].role = "admin"]_vars

\* isAdmin answered false for a user whose only record is an admin's, removed
C21_Witness ==
    /\ group.exists
    /\ groupResult.op = "isAdmin"
    /\ ~groupResult.ok
    /\ \E i \in RecordsOf(group.members, groupResult.userId) :
           group.members[i].role = "admin" /\ ~group.members[i].isActive

\* C22: an inviteCode is assigned only by a save of a new group that has
\* none; once the group is stored its inviteCode never changes, whatever
\* saves, membership changes and status changes follow; and no two stored
\* groups hold the same inviteCode.
C22_InviteCodeIssuedOnce ==
    [][/\ (group.exists /\ ~group.isNew)
            => group'.inviteCode = group.inviteCode
       /\ (group.exists /\ group'.inviteCode # group.inviteCode)
            => /\ \E c \in Codes : GroupSave(c)
               /\ group.isNew
               /\ group.inviteCode = NoCode
       /\ LET codes == StoredCodes(group', groupDb')
          IN  \A i, j \in 1..Len(codes) :
                  /\ codes[i] # NoCode
                  /\ i # j => codes[i] # codes[j]]_vars

\* a stored group, archived and saved again after one of its members left,
\* holds its invite code next to another group's
C22_Witness ==
    /\ group.exists
    /\ ~group.isNew
    /\ group.inviteCode # NoCode
    /\ group.status = "archived"
    /\ group.modified = {}
    /\ groupResult.op = "save"
    /\ Len(group.members) = 1
    /\ ~group.members[1].isActive
    /\ Len(groupDb) >= 1

RECURSIVE ActiveTotal(_, _)
\* the sum of amount over the expenses of db that pass the filter q and are
\* active
ActiveTotal(q, db) ==
    IF db = <<>> THEN 0
    ELSE (IF StatsMatches(q, Head(db)) /\ Head(db).status = "active"
          THEN Head(db).amount ELSE 0)
         + ActiveTotal(q, Tail(db))

\* C23: an expense whose status is deleted or archived contributes to no
\* aggregation; here, the totals the getExpenseStats endpoint answers are the
\* totals of the active expenses of the user (in the date range asked), while
\* the soft-deleted records stay stored.
C23_DeletedExcluded ==
    [][/\ Len(expenseDb') >= Len(expenseDb)
       /\ \A u \in 1..2, r \in StatsRanges :
            GetExpenseStats(u, r[1], r[2]) =>
              response'.total
                  = ActiveTotal(StatsQuery(u, r[1], r[2]), expenseDb)]_vars

RECURSIVE CurrencyTotal(_, _, _)
\* the sum of amount over the expenses of db that pass the filter q and are
\* in currency
CurrencyTotal(q, currency, db) ==
    IF db = <<>> THEN 0
    ELSE (IF Matches(q, Head(db)) /\ Head(db).currency = currency
          THEN Head(db).amount ELSE 0)
         + CurrencyTotal(q, currency, Tail(db))

\* C24: a budget's spentAmount never includes the amount of an expense in
\* another currency than the budget's: with expenses only ever added, it is
\* at most the total of the stored matching expenses in the budget's
\* currency.
C24_NoCrossCurrencySum ==
    budget.exists =>
        budget.stats.spentAmount
            <= CurrencyTotal(ExpenseQuery(budget), budget.currency, expenseDb)

RECURSIVE Ancestor(_, _, _)
\* the n-th ancestor of category id along the parentCategory links of cats,
\* NoRef when the chain ends before
Ancestor(cats, id, n) ==
    IF id = NoRef \/ n = 0 THEN id
    ELSE IF ~cats[id].exists THEN NoRef
    ELSE Ancestor(cats, cats[id].parentCategory, n - 1)

\* C25: the category hierarchy is acyclic: following parentCategory from a
\* stored category never leads back to it, because a save that would close a
\* cycle of any length is rejected.
C25_HierarchyAcyclic ==
    \A id \in 1..MaxCategories :
        categories[id].exists =>
            \A n \in 1..MaxCategories : Ancestor(categories, id, n) # id

\* C26: when a save has written the budget, the calculateStats() its hook
\* started has completed (none is pending, to complete after updateStatus and
\* the write), and the status written, unless paused or cancelled, is exceeded
\* exactly when the spentAmount written is above amount.
C26_StatusFromSamePass ==
    BudgetSaved
        => /\ budgetCalls = <<>>
           /\ budget.status \notin StickyStatuses
                => (budget.status = "exceeded"
                      <=> budget.stats.spentAmount > budget.amount)

\* C27: an add-member request for a memberId that already belongs to the
\* group, made by a member, is answered with 400 and leaves the roster and the
\* user's groups list unchanged; no add-member request and no create request
\* leaves a user with two roster records.
C27_AddMemberAlreadyMember ==
    [][\A u \in 1..MaxMembers, m \in 1..MaxMembers :
         AddMemberToGroup(u, m) =>
           /\ (/\ group.exists /\ ~group.isNew
               /\ IsMember(group.members, u)
               /\ RecordsOf(group.members, m) # {})
                 => /\ response'.code = 400
                    /\ group'.members = group.members
                    /\ userGroups' = userGroups
           /\ group'.exists =>
                \A v \in Users : Cardinality(RecordsOf(group'.members, v)) <= 1]_vars

\* C28: a recomputation that runs after endDate (a save with now > endDate)
\* leaves a budget that is not paused or cancelled completed or exceeded,
\* leaves a completed budget completed, and makes no budget paused or
\* cancelled that was not.
C28_TerminalAfterExpiry ==
    [][(BudgetSave /\ BudgetValid(budget) /\ now > budget.endDate)
         => /\ budget.status \notin StickyStatuses
                 => budget'.status \in {"completed", "exceeded"}
            /\ budget.status = "completed" => budget'.status = "completed"
            /\ budget'.status \in StickyStatuses
                 => budget'.status = budget.status]_vars

\* C29: every saved expense and every saved group has deletedAt set exactly
\* when its status is deleted: the save of a status changed to deleted sets
\* it, and a record whose status was changed back from deleted has none.
C29_DeletedAtIffDeleted ==
    /\ ExpenseSaved
         => (expense.deletedAt # NoDate <=> expense.status = "deleted")
    /\ (group.exists /\ groupResult.op = "save" /\ groupResult.ok)
         => (group.deletedAt # NoDate <=> group.status = "deleted")

====
